---- MODULE Spec2Model ----
(***************************************************************************)
(* timelog: a labelled stopwatch.                                          *)
(*                                                                         *)
(* Two Timer types live in the repository:                                 *)
(*   - src/src/lib.rs : Timer { timers: HashMap<String, Instant> } with    *)
(*     time / time_log(label, silent) / time_end(label, silent) returning  *)
(*     f64, and the process-wide Timer::single_instance();                 *)
(*   - src/lib.rs     : Timer { timers: Arc<Mutex<HashMap<..>>> } with     *)
(*     time / time_log(label, message) / time_end(label) returning ().     *)
(*                                                                         *)
(* Instants and durations are counted in nanoseconds.  An f64 number of    *)
(* milliseconds is represented exactly, as an integer number of            *)
(* millionths of a millisecond (MsScale units per millisecond).            *)
(***************************************************************************)
EXTENDS Integers, Sequences, FiniteSets, TLC

\* ---------------------------------------------------------------- bounds
MaxTicks == 2
MaxRaceTicks == 1
MaxMillis == 1300
TickNanos == 600000000

Labels == {"a", "b"}
Threads == {"t1", "t2"}
Msgs == {"m"}
\* nanoseconds below one millisecond added to a whole number of milliseconds
SubMillis == {0, 1, 999999}
\* Duration::from_millis(1234) of test_duration_to_ms
TestMillis == 1234

\* ------------------------------------------------------- unit constants
NanosPerSec == 1000000000
MillisPerSec == 1000
NanosPerMilli == 1000000
\* one millisecond of an f64 result, in the units the model counts f64 in
MsScale == NanosPerMilli
\* {:.3} keeps three decimals: thousandths of a millisecond
Decimals3 == 1000

VARIABLES
    now,          \* the monotonic clock (Instant::now()), in nanoseconds
    timers,       \* src/src/lib.rs Timer.timers : HashMap<String, Instant>
    shared,       \* src/lib.rs Timer.timers : the map inside Arc<Mutex<..>>
    mutex,        \* holder of the Mutex of src/lib.rs, or NoThread
    call,         \* the last completed call of the sequential caller
    hist,         \* per label: last time/time_end issued on `timers`
    shist,        \* per label: last time/time_end issued on `shared`
    overwritten,  \* per label: the Instant the last insert replaced
    peeked,       \* Some(ms) of the time_log that came just before `call`
    pc,           \* per thread: position inside the call it is executing
    req,          \* per thread: the call it is executing
    snap,         \* per thread: the map contents its lookup observed
    res,          \* per thread: the result of its last completed call
    users,        \* per label: threads that have called with that label
    overlap,      \* a call was entered while another thread was in a call
    once,         \* ONCE of single_instance: state of the std::sync::Once
    singleton,    \* SINGLETON of single_instance: 0 = None, n = n-th Timer
    constructed,  \* number of Timer::new() calls made by single_instance
    gref,         \* per thread: the Timer its last single_instance() gave
    scall,        \* the last call on `shared` of a caller driving both Timers
    finds,        \* per label: time_end calls of threads that found it
                  \* since the last time() on it completed
    conv          \* a Duration and the f64 duration_to_ms made of it

vars == <<now, timers, shared, mutex, call, hist, shist, overwritten, peeked,
          pc, req, snap, res, users, overlap, once, singleton, constructed,
          gref, scall, finds, conv>>

auxVars == <<scall, finds, conv>>
seqVars == <<now, timers, shared, call, hist, shist, overwritten, peeked>>
threadVars == <<pc, req, snap, res, users, overlap>>
globalVars == <<once, singleton, constructed, gref>>

\* ------------------------------------------------------------- values
NoThread == "none"
UnitVal == [ty |-> "unit", v |-> 0]
F64(x) == [ty |-> "f64", v |-> x]
None == <<>>
Some(x) == <<x>>
MsgOpts == {None} \cup {Some(m) : m \in Msgs}

\* ------------------------------------------------ HashMap<String, Instant>
HashMap_new == [l \in {} |-> 0]

contains_key(m, k) == k \in DOMAIN m

insert(m, k, v) == [x \in (DOMAIN m) \cup {k} |-> IF x = k THEN v ELSE m[x]]

\* a removal that empties the table (clear instead of remove)
remove_clears(m, k) == IF k \in DOMAIN m THEN [l \in {} |-> 0] ELSE m

remove(m, k) == [x \in (DOMAIN m) \ {k} |-> m[x]]

\* ------------------------------------------------------------ Duration
\* the operands of the subtraction exchanged, without saturation
elapsed_swapped(start, t) ==
    LET ns == start - t
    IN  [secs |-> ns \div NanosPerSec, nanos |-> ns % NanosPerSec]

\* Instant::elapsed(): now - start, saturating at zero
elapsed(start, t) ==
    LET ns == IF t >= start THEN t - start ELSE 0
    IN  [secs |-> ns \div NanosPerSec, nanos |-> ns % NanosPerSec]

\* the division applied to the whole sum: (secs * 1000 + nanos) / 1e6
duration_to_ms_misparenthesised(duration) ==
    duration.secs * MillisPerSec + duration.nanos

\* the whole seconds only: the sub-second part is dropped
duration_to_ms_secs_only(duration) ==
    duration.secs * MillisPerSec * MsScale

\* (as_secs as f64) * 1000.0 + (subsec_nanos as f64) / 1_000_000.0
duration_to_ms(duration) ==
    duration.secs * MillisPerSec * MsScale
        + duration.nanos * (MsScale \div NanosPerMilli)

\* "{:.3}": the value rounded to three decimals, in thousandths of a ms
format3(ms) ==
    LET unit == MsScale \div Decimals3
    IN  (ms + (unit \div 2)) \div unit

\* println!("{}: {:.3}ms", label, ms) / println!("{}: {:.3}ms - {}", ..)
OutLine(label, ms, msg) == [label |-> label, ms |-> format3(ms), msg |-> msg]

\* eprintln!("Timer '{}' does not exist", label)
ErrLine(label) == [text |-> "does not exist", label |-> label]

\* ------------------------------------------- src/src/lib.rs : Timer
Timer_new == HashMap_new

\* an insert that keeps an entry that is already there (entry().or_insert)
time_keeps_first(self, label, t) ==
    [timers |-> IF contains_key(self, label) THEN self
                ELSE insert(self, label, t),
     found |-> TRUE, ret |-> UnitVal, out |-> <<>>, err |-> <<>>]

time(self, label, t) ==
    [timers |-> insert(self, label, t), found |-> TRUE, ret |-> UnitVal,
     out |-> <<>>, err |-> <<>>]

\* the value is only computed on the printing path: silent returns 0.0
time_log_silent_zero(self, label, silent, t) ==
    IF contains_key(self, label)
    THEN LET ms == duration_to_ms(elapsed(self[label], t))
         IN  [timers |-> self, found |-> TRUE,
              ret |-> IF ~silent THEN F64(ms) ELSE F64(0),
              out |-> IF ~silent THEN <<OutLine(label, ms, None)>> ELSE <<>>,
              err |-> <<>>]
    ELSE [timers |-> self, found |-> FALSE, ret |-> F64(0),
          out |-> <<>>, err |-> <<ErrLine(label)>>]

\* a lookup that takes the entry out of the map (remove instead of get)
time_log_removes(self, label, silent, t) ==
    IF contains_key(self, label)
    THEN LET ms == duration_to_ms(elapsed(self[label], t))
         IN  [timers |-> remove(self, label), found |-> TRUE, ret |-> F64(ms),
              out |-> IF ~silent THEN <<OutLine(label, ms, None)>> ELSE <<>>,
              err |-> <<>>]
    ELSE [timers |-> self, found |-> FALSE, ret |-> F64(0),
          out |-> <<>>, err |-> <<ErrLine(label)>>]

time_log(self, label, silent, t) ==
    IF contains_key(self, label)
    THEN LET ms == duration_to_ms(elapsed(self[label], t))
         IN  [timers |-> self, found |-> TRUE, ret |-> F64(ms),
              out |-> IF ~silent THEN <<OutLine(label, ms, None)>> ELSE <<>>,
              err |-> <<>>]
    ELSE [timers |-> self, found |-> FALSE, ret |-> F64(0),
          out |-> <<>>, err |-> <<ErrLine(label)>>]

\* silent also suppresses the diagnostic of the not-found branch
time_end_silent_quiet(self, label, silent, t) ==
    IF contains_key(self, label)
    THEN LET ms == duration_to_ms(elapsed(self[label], t))
         IN  [timers |-> remove(self, label), found |-> TRUE, ret |-> F64(ms),
              out |-> IF ~silent THEN <<OutLine(label, ms, None)>> ELSE <<>>,
              err |-> <<>>]
    ELSE [timers |-> self, found |-> FALSE, ret |-> F64(0),
          out |-> <<>>,
          err |-> IF ~silent THEN <<ErrLine(label)>> ELSE <<>>]

\* the entry is removed only on the printing path
time_end_silent_keeps(self, label, silent, t) ==
    IF contains_key(self, label)
    THEN LET ms == duration_to_ms(elapsed(self[label], t))
         IN  [timers |-> IF ~silent THEN remove(self, label) ELSE self,
              found |-> TRUE, ret |-> F64(ms),
              out |-> IF ~silent THEN <<OutLine(label, ms, None)>> ELSE <<>>,
              err |-> <<>>]
    ELSE [timers |-> self, found |-> FALSE, ret |-> F64(0),
          out |-> <<>>, err |-> <<ErrLine(label)>>]

time_end(self, label, silent, t) ==
    IF contains_key(self, label)
    THEN LET ms == duration_to_ms(elapsed(self[label], t))
         IN  [timers |-> remove(self, label), found |-> TRUE, ret |-> F64(ms),
              out |-> IF ~silent THEN <<OutLine(label, ms, None)>> ELSE <<>>,
              err |-> <<>>]
    ELSE [timers |-> self, found |-> FALSE, ret |-> F64(0),
          out |-> <<>>, err |-> <<ErrLine(label)>>]

\* ------------------------------------------------ src/lib.rs : Timer
shared_new == HashMap_new

\* an insert that keeps an entry that is already there
shared_time_keeps_first(m, label, t) ==
    [timers |-> IF contains_key(m, label) THEN m ELSE insert(m, label, t),
     found |-> TRUE, ret |-> UnitVal, out |-> <<>>, err |-> <<>>]

shared_time(m, label, t) ==
    [timers |-> insert(m, label, t), found |-> TRUE, ret |-> UnitVal,
     out |-> <<>>, err |-> <<>>]

\* the message is dropped from the printed line
shared_time_log_no_msg(m, label, message, t) ==
    IF contains_key(m, label)
    THEN LET ms == duration_to_ms(elapsed(m[label], t))
         IN  [timers |-> m, found |-> TRUE, ret |-> UnitVal,
              out |-> <<OutLine(label, ms, None)>>, err |-> <<>>]
    ELSE [timers |-> m, found |-> FALSE, ret |-> UnitVal,
          out |-> <<>>, err |-> <<ErrLine(label)>>]

\* the not-found branch prints nothing
shared_time_log_quiet(m, label, message, t) ==
    IF contains_key(m, label)
    THEN LET ms == duration_to_ms(elapsed(m[label], t))
         IN  [timers |-> m, found |-> TRUE, ret |-> UnitVal,
              out |-> <<OutLine(label, ms, message)>>, err |-> <<>>]
    ELSE [timers |-> m, found |-> FALSE, ret |-> UnitVal,
          out |-> <<>>, err |-> <<>>]

shared_time_log(m, label, message, t) ==
    IF contains_key(m, label)
    THEN LET ms == duration_to_ms(elapsed(m[label], t))
         IN  [timers |-> m, found |-> TRUE, ret |-> UnitVal,
              out |-> <<OutLine(label, ms, message)>>, err |-> <<>>]
    ELSE [timers |-> m, found |-> FALSE, ret |-> UnitVal,
          out |-> <<>>, err |-> <<ErrLine(label)>>]

\* the entry is looked up but left in the map (get instead of remove)
shared_time_end_keeps(m, label, t) ==
    IF contains_key(m, label)
    THEN LET ms == duration_to_ms(elapsed(m[label], t))
         IN  [timers |-> m, found |-> TRUE, ret |-> UnitVal,
              out |-> <<OutLine(label, ms, None)>>, err |-> <<>>]
    ELSE [timers |-> m, found |-> FALSE, ret |-> UnitVal,
          out |-> <<>>, err |-> <<ErrLine(label)>>]

shared_time_end(m, label, t) ==
    IF contains_key(m, label)
    THEN LET ms == duration_to_ms(elapsed(m[label], t))
         IN  [timers |-> remove(m, label), found |-> TRUE, ret |-> UnitVal,
              out |-> <<OutLine(label, ms, None)>>, err |-> <<>>]
    ELSE [timers |-> m, found |-> FALSE, ret |-> UnitVal,
          out |-> <<>>, err |-> <<ErrLine(label)>>]

\* --------------------------------------------------------- call records
NoCall ==
    [variant |-> "none", op |-> "none", label |-> "", silent |-> FALSE,
     msg |-> None, found |-> FALSE, ret |-> UnitVal, out |-> <<>>,
     err |-> <<>>]

CallRec(variant, op, label, silent, msg, r) ==
    [variant |-> variant, op |-> op, label |-> label, silent |-> silent,
     msg |-> msg, found |-> r.found, ret |-> r.ret, out |-> r.out,
     err |-> r.err]

\* no conversion made: the zero Duration
NoConv == [n |-> 0, extra |-> 0, duration |-> [secs |-> 0, nanos |-> 0],
           ms |-> F64(0), done |-> FALSE]

\* Duration::from_millis(n), plus extra nanoseconds
from_millis(n, extra) ==
    [secs |-> n \div MillisPerSec,
     nanos |-> (n % MillisPerSec) * NanosPerMilli + extra]

NoReq == [op |-> "none", label |-> "", silent |-> FALSE, msg |-> None]

\* ------------------------------------------------------------------ Init
InitTimers ==
    /\ now = 0
    /\ timers = Timer_new
    /\ shared = shared_new
    /\ mutex = NoThread
    /\ call = NoCall
    /\ hist = [l \in Labels |-> "none"]
    /\ shist = [l \in Labels |-> "none"]
    /\ overwritten = HashMap_new
    /\ peeked = None
    /\ pc = [t \in Threads |-> "idle"]
    /\ req = [t \in Threads |-> NoReq]
    /\ snap = [t \in Threads |-> HashMap_new]
    /\ res = [t \in Threads |-> NoCall]
    /\ users = [l \in Labels |-> {}]
    /\ overlap = FALSE
    /\ once = "incomplete"
    /\ singleton = 0
    /\ constructed = 0
    /\ gref = [t \in Threads |-> 0]
    /\ scall = NoCall
    /\ finds = [l \in Labels |-> 0]

Init ==
    /\ InitTimers
    /\ conv = NoConv

\* the monotonic clock advances between calls
Tick ==
    /\ now < MaxTicks * TickNanos
    /\ now' = now + TickNanos
    /\ UNCHANGED <<timers, shared, mutex, call, hist, shist, overwritten,
                   peeked, pc, req, snap, res, users, overlap, once,
                   singleton, constructed,
                   gref>>
    /\ UNCHANGED auxVars

\* the same clock, in the runs with threads
RaceTick ==
    /\ now < MaxRaceTicks * TickNanos
    /\ now' = now + TickNanos
    /\ UNCHANGED <<timers, shared, mutex, call, hist, shist, overwritten,
                   peeked, pc, req, snap, res, users, overlap, once, singleton,
                   constructed, gref>>
    /\ UNCHANGED auxVars

\* ------------------------------ one owner calling src/src/lib.rs : Timer
Time(label) ==
    LET r == time(timers, label, now)
    IN  /\ timers' = r.timers
        /\ call' = CallRec("plain", "time", label, FALSE, None, r)
        /\ hist' = [hist EXCEPT ![label] = "time"]
        /\ overwritten' = IF contains_key(timers, label)
                          THEN insert(overwritten, label, timers[label])
                          ELSE remove(overwritten, label)
        /\ peeked' = None
        /\ UNCHANGED <<now, shared, mutex, shist>>
        /\ UNCHANGED threadVars
        /\ UNCHANGED globalVars
        /\ UNCHANGED auxVars

TimeLog(label, silent) ==
    LET r == time_log(timers, label, silent, now)
    IN  /\ timers' = r.timers
        /\ call' = CallRec("plain", "time_log", label, silent, None, r)
        /\ peeked' = IF /\ call.variant = "plain" /\ call.op = "time_log"
                         /\ call.label = label /\ call.found
                      THEN Some(call.ret.v)
                      ELSE None
        /\ UNCHANGED <<now, shared, mutex, hist, shist, overwritten>>
        /\ UNCHANGED threadVars
        /\ UNCHANGED globalVars
        /\ UNCHANGED auxVars

TimeEnd(label, silent) ==
    LET r == time_end(timers, label, silent, now)
    IN  /\ timers' = r.timers
        /\ call' = CallRec("plain", "time_end", label, silent, None, r)
        /\ hist' = [hist EXCEPT ![label] = "time_end"]
        /\ overwritten' = remove(overwritten, label)
        /\ peeked' = None
        /\ UNCHANGED <<now, shared, mutex, shist>>
        /\ UNCHANGED threadVars
        /\ UNCHANGED globalVars
        /\ UNCHANGED auxVars

\* ---------------------- one caller of src/lib.rs : Timer (lock uncontended)
MutexFree == mutex = NoThread

SharedTime(label) ==
    LET r == shared_time(shared, label, now)
    IN  /\ MutexFree
        /\ shared' = r.timers
        /\ call' = CallRec("shared", "time", label, FALSE, None, r)
        /\ shist' = [shist EXCEPT ![label] = "time"]
        /\ peeked' = None
        /\ UNCHANGED <<now, timers, mutex, hist, overwritten>>
        /\ UNCHANGED threadVars
        /\ UNCHANGED globalVars
        /\ UNCHANGED auxVars

SharedTimeLog(label, message) ==
    LET r == shared_time_log(shared, label, message, now)
    IN  /\ MutexFree
        /\ shared' = r.timers
        /\ call' = CallRec("shared", "time_log", label, FALSE, message, r)
        /\ peeked' = None
        /\ UNCHANGED <<now, timers, mutex, hist, shist, overwritten>>
        /\ UNCHANGED threadVars
        /\ UNCHANGED globalVars
        /\ UNCHANGED auxVars

SharedTimeEnd(label) ==
    LET r == shared_time_end(shared, label, now)
    IN  /\ MutexFree
        /\ shared' = r.timers
        /\ call' = CallRec("shared", "time_end", label, FALSE, None, r)
        /\ shist' = [shist EXCEPT ![label] = "time_end"]
        /\ peeked' = None
        /\ UNCHANGED <<now, timers, mutex, hist, overwritten>>
        /\ UNCHANGED threadVars
        /\ UNCHANGED globalVars
        /\ UNCHANGED auxVars

Next ==
    \/ Tick
    \/ \E l \in Labels : Time(l)
    \/ \E l \in Labels, s \in BOOLEAN : TimeLog(l, s)
    \/ \E l \in Labels, s \in BOOLEAN : TimeEnd(l, s)
    \/ \E l \in Labels : SharedTime(l)
    \/ \E l \in Labels, m \in MsgOpts : SharedTimeLog(l, m)
    \/ \E l \in Labels : SharedTimeEnd(l)

Spec == Init /\ [][Next]_vars

\* =================================================================
\* Threads sharing one src/lib.rs Timer (the Arc<Mutex<HashMap>>)
\* =================================================================
Ops == {"time", "time_log", "time_end"}

Req(op, label, silent, msg) ==
    [op |-> op, label |-> label, silent |-> silent, msg |-> msg]

\* the call of the request rq on the map contents m, at clock reading t
shared_call(rq, m, t) ==
    CASE rq.op = "time" -> shared_time(m, rq.label, t)
      [] rq.op = "time_log" -> shared_time_log(m, rq.label, rq.msg, t)
      [] OTHER -> shared_time_end(m, rq.label, t)

\* a lock that never makes a caller wait
lock_never_waits(t) == TRUE

\* Mutex::lock() returns only when no other thread holds the guard
lock_acquirable(t) == mutex = NoThread

\* a thread enters time / time_log / time_end
SharedCall(t, op, label, msg) ==
    /\ pc[t] = "idle"
    /\ op = "time_log" \/ msg = None
    /\ pc' = [pc EXCEPT ![t] = "lock"]
    /\ req' = [req EXCEPT ![t] = Req(op, label, FALSE, msg)]
    /\ res' = [res EXCEPT ![t] = NoCall]
    /\ users' = [users EXCEPT ![label] = @ \cup {t}]
    /\ overlap' = (overlap \/ \E u \in Threads \ {t} : pc[u] # "idle")
    /\ shist' = IF op = "time_log" THEN shist
                ELSE [shist EXCEPT ![label] = op]
    /\ UNCHANGED <<now, timers, shared, mutex, call, hist, overwritten,
                   peeked, snap>>
    /\ UNCHANGED globalVars
    /\ UNCHANGED auxVars

\* let timers = self.timers.lock().unwrap();
SharedLock(t) ==
    /\ pc[t] = "lock"
    /\ lock_acquirable(t)
    /\ mutex' = t
    /\ pc' = [pc EXCEPT ![t] = "locked"]
    /\ UNCHANGED <<now, timers, shared, call, hist, shist, overwritten,
                   peeked, req, snap, res, users, overlap>>
    /\ UNCHANGED globalVars
    /\ UNCHANGED auxVars

\* the HashMap operation starts: it reads the table
SharedLookup(t) ==
    /\ pc[t] = "locked"
    /\ snap' = [snap EXCEPT ![t] = shared]
    /\ pc' = [pc EXCEPT ![t] = "update"]
    /\ UNCHANGED <<now, timers, shared, mutex, call, hist, shist,
                   overwritten, peeked, req, res, users, overlap>>
    /\ UNCHANGED globalVars
    /\ UNCHANGED auxVars

\* the HashMap operation completes: it stores the table; the line is printed
SharedUpdate(t) ==
    LET r == shared_call(req[t], snap[t], now)
    IN  /\ pc[t] = "update"
        /\ shared' = r.timers
        /\ res' = [res EXCEPT ![t] =
                     CallRec("shared", req[t].op, req[t].label, FALSE,
                             req[t].msg, r)]
        /\ snap' = [snap EXCEPT ![t] = HashMap_new]
        /\ pc' = [pc EXCEPT ![t] = "unlock"]
        /\ UNCHANGED <<now, timers, mutex, call, hist, shist, overwritten,
                       peeked, req, users, overlap>>
        /\ UNCHANGED globalVars
        /\ finds' = IF req[t].op = "time"
                    THEN [finds EXCEPT ![req[t].label] = 0]
                    ELSE IF req[t].op = "time_end" /\ r.found
                    THEN [finds EXCEPT ![req[t].label] = @ + 1]
                    ELSE finds
        /\ UNCHANGED <<scall, conv>>

\* a guard that outlives the call (mem::forget of the MutexGuard)
guard_leaked(t) == t

\* the holder of the Mutex once the guard of thread t has been dropped
guard_dropped(t) == NoThread

\* the MutexGuard is dropped when the function returns
SharedUnlock(t) ==
    /\ pc[t] = "unlock"
    /\ mutex' = guard_dropped(t)
    /\ pc' = [pc EXCEPT ![t] = "idle"]
    /\ req' = [req EXCEPT ![t] = NoReq]
    /\ UNCHANGED <<now, timers, shared, call, hist, shist, overwritten,
                   peeked, snap, res, users, overlap>>
    /\ UNCHANGED globalVars
    /\ UNCHANGED auxVars

NextShared ==
    \/ RaceTick
    \/ \E t \in Threads, op \in Ops, l \in Labels, m \in MsgOpts :
          SharedCall(t, op, l, m)
    \/ \E t \in Threads : SharedLock(t)
    \/ \E t \in Threads : SharedLookup(t)
    \/ \E t \in Threads : SharedUpdate(t)
    \/ \E t \in Threads : SharedUnlock(t)

SpecShared == Init /\ [][NextShared]_vars

\* The threads are scheduled fairly: a thread that can take its next step
\* takes it, and a thread waiting in lock() while the Mutex is free again
\* and again gets it
FairShared ==
    \A t \in Threads :
       /\ SF_vars(SharedLock(t))
       /\ WF_vars(SharedLookup(t))
       /\ WF_vars(SharedUpdate(t))
       /\ WF_vars(SharedUnlock(t))

\* the steps of the threads alone: the clock takes no part in the locking
NextSharedCalls ==
    \/ \E t \in Threads, op \in Ops, l \in Labels, m \in MsgOpts :
          SharedCall(t, op, l, m)
    \/ \E t \in Threads : SharedLock(t)
    \/ \E t \in Threads : SharedLookup(t)
    \/ \E t \in Threads : SharedUpdate(t)
    \/ \E t \in Threads : SharedUnlock(t)

SpecSharedFair == Init /\ [][NextSharedCalls]_vars /\ FairShared

\* =================================================================
\* Threads using Timer::single_instance() of src/src/lib.rs
\* =================================================================

\* the call of the request rq on the map contents m, at clock reading t
timer_call(rq, m, t) ==
    CASE rq.op = "time" -> time(m, rq.label, t)
      [] rq.op = "time_log" -> time_log(m, rq.label, rq.silent, t)
      [] OTHER -> time_end(m, rq.label, rq.silent, t)

\* an unsynchronised "not yet initialised" test
call_once_unsynchronised(o) == o # "complete"

\* Once::call_once runs its closure only for the first caller
call_once_runs(o) == o = "incomplete"

\* a thread evaluates Timer::single_instance().<op>(label, silent)
GlobalCall(t, op, label, silent) ==
    /\ pc[t] = "idle"
    /\ op # "time" \/ silent = FALSE
    /\ pc' = [pc EXCEPT ![t] = "once"]
    /\ req' = [req EXCEPT ![t] = Req(op, label, silent, None)]
    /\ res' = [res EXCEPT ![t] = NoCall]
    /\ users' = [users EXCEPT ![label] = @ \cup {t}]
    /\ overlap' = (overlap \/ \E u \in Threads \ {t} : pc[u] # "idle")
    /\ hist' = IF op = "time_log" THEN hist ELSE [hist EXCEPT ![label] = op]
    /\ UNCHANGED <<now, timers, shared, mutex, call, shist, overwritten,
                   peeked, snap>>
    /\ UNCHANGED globalVars
    /\ UNCHANGED auxVars

\* ONCE.call_once(|| ..): the first caller starts the closure; a caller
\* that finds the closure running waits; later callers pass through
GlobalOnce(t) ==
    /\ pc[t] = "once"
    /\ \/ /\ call_once_runs(once)
          /\ once' = "running"
          /\ pc' = [pc EXCEPT ![t] = "init"]
       \/ /\ once = "complete"
          /\ once' = once
          /\ pc' = [pc EXCEPT ![t] = "unwrap"]
    /\ UNCHANGED <<now, timers, shared, mutex, call, hist, shist,
                   overwritten, peeked, req, snap, res, users, overlap,
                   singleton,
                   constructed, gref>>
    /\ UNCHANGED auxVars

\* SINGLETON = Some(self::Timer::new()); the Once becomes complete
GlobalInit(t) ==
    /\ pc[t] = "init"
    /\ constructed' = constructed + 1
    /\ singleton' = constructed + 1
    /\ timers' = Timer_new
    /\ once' = "complete"
    /\ pc' = [pc EXCEPT ![t] = "unwrap"]
    /\ UNCHANGED <<now, shared, mutex, call, hist, shist, overwritten,
                   peeked, req, snap, res, users, overlap, gref>>
    /\ UNCHANGED auxVars

\* SINGLETON.as_mut().unwrap(): panics on None
GlobalUnwrap(t) ==
    /\ pc[t] = "unwrap"
    /\ IF singleton = 0
       THEN /\ pc' = [pc EXCEPT ![t] = "panicked"]
            /\ gref' = gref
       ELSE /\ pc' = [pc EXCEPT ![t] = "get"]
            /\ gref' = [gref EXCEPT ![t] = singleton]
    /\ UNCHANGED <<now, timers, shared, mutex, call, hist, shist,
                   overwritten, peeked, req, snap, res, users, overlap, once,
                   singleton, constructed>>
    /\ UNCHANGED auxVars

\* the HashMap operation starts on the &'static mut Timer: no lock is taken
GlobalLookup(t) ==
    /\ pc[t] = "get"
    /\ snap' = [snap EXCEPT ![t] = timers]
    /\ pc' = [pc EXCEPT ![t] = "update"]
    /\ UNCHANGED <<now, timers, shared, mutex, call, hist, shist,
                   overwritten, peeked, req, res, users, overlap>>
    /\ UNCHANGED globalVars
    /\ UNCHANGED auxVars

\* the HashMap operation completes.  When another thread has written the
\* table since the lookup the two accesses were a data race: the table is
\* left as computed from what this thread read, or from what is there now
GlobalUpdate(t) ==
    LET r == timer_call(req[t], snap[t], now)
    IN  /\ pc[t] = "update"
        /\ timers' \in {r.timers, timer_call(req[t], timers, now).timers}
        /\ res' = [res EXCEPT ![t] =
                     CallRec("plain", req[t].op, req[t].label, req[t].silent,
                             None, r)]
        /\ snap' = [snap EXCEPT ![t] = HashMap_new]
        /\ pc' = [pc EXCEPT ![t] = "idle"]
        /\ req' = [req EXCEPT ![t] = NoReq]
        /\ UNCHANGED <<now, shared, mutex, call, hist, shist, overwritten,
                       peeked, users, overlap>>
        /\ UNCHANGED globalVars
        /\ UNCHANGED auxVars

NextSingleton ==
    \/ RaceTick
    \/ \E t \in Threads, op \in Ops, l \in Labels, s \in BOOLEAN :
          GlobalCall(t, op, l, s)
    \/ \E t \in Threads : GlobalOnce(t)
    \/ \E t \in Threads : GlobalInit(t)
    \/ \E t \in Threads : GlobalUnwrap(t)
    \/ \E t \in Threads : GlobalLookup(t)
    \/ \E t \in Threads : GlobalUpdate(t)

SpecSingleton == Init /\ [][NextSingleton]_vars

\* =================================================================
\* Timer::duration_to_ms applied to durations
\* =================================================================
InitConv ==
    /\ InitTimers
    /\ \E n \in 0..MaxMillis, x \in SubMillis :
          conv = [n |-> n, extra |-> x, duration |-> from_millis(n, x),
                  ms |-> F64(0), done |-> FALSE]

\* Timer::duration_to_ms(duration)
Convert ==
    /\ ~conv.done
    /\ conv' = [conv EXCEPT !.ms = F64(duration_to_ms(conv.duration)),
                            !.done = TRUE]
    /\ UNCHANGED <<now, timers, shared, mutex, call, hist, shist,
                   overwritten, peeked, scall, finds>>
    /\ UNCHANGED threadVars
    /\ UNCHANGED globalVars

NextConv == Convert

SpecConv == InitConv /\ [][NextConv]_vars

\* =================================================================
\* One caller making every call on both Timers, at one clock reading
\* (no message, silent = false)
\* =================================================================
BothTime(label) ==
    LET r == time(timers, label, now)
        q == shared_time(shared, label, now)
    IN  /\ MutexFree
        /\ timers' = r.timers
        /\ shared' = q.timers
        /\ call' = CallRec("plain", "time", label, FALSE, None, r)
        /\ scall' = CallRec("shared", "time", label, FALSE, None, q)
        /\ hist' = [hist EXCEPT ![label] = "time"]
        /\ shist' = [shist EXCEPT ![label] = "time"]
        /\ overwritten' = IF contains_key(timers, label)
                          THEN insert(overwritten, label, timers[label])
                          ELSE remove(overwritten, label)
        /\ peeked' = None
        /\ UNCHANGED <<now, mutex, finds, conv>>
        /\ UNCHANGED threadVars
        /\ UNCHANGED globalVars

BothTimeLog(label) ==
    LET r == time_log(timers, label, FALSE, now)
        q == shared_time_log(shared, label, None, now)
    IN  /\ MutexFree
        /\ timers' = r.timers
        /\ shared' = q.timers
        /\ call' = CallRec("plain", "time_log", label, FALSE, None, r)
        /\ scall' = CallRec("shared", "time_log", label, FALSE, None, q)
        /\ peeked' = IF /\ call.variant = "plain" /\ call.op = "time_log"
                         /\ call.label = label /\ call.found
                      THEN Some(call.ret.v)
                      ELSE None
        /\ UNCHANGED <<now, mutex, hist, shist, overwritten, finds, conv>>
        /\ UNCHANGED threadVars
        /\ UNCHANGED globalVars

BothTimeEnd(label) ==
    LET r == time_end(timers, label, FALSE, now)
        q == shared_time_end(shared, label, now)
    IN  /\ MutexFree
        /\ timers' = r.timers
        /\ shared' = q.timers
        /\ call' = CallRec("plain", "time_end", label, FALSE, None, r)
        /\ scall' = CallRec("shared", "time_end", label, FALSE, None, q)
        /\ hist' = [hist EXCEPT ![label] = "time_end"]
        /\ shist' = [shist EXCEPT ![label] = "time_end"]
        /\ overwritten' = remove(overwritten, label)
        /\ peeked' = None
        /\ UNCHANGED <<now, mutex, finds, conv>>
        /\ UNCHANGED threadVars
        /\ UNCHANGED globalVars

NextLockstep ==
    \/ Tick
    \/ \E l \in Labels : BothTime(l)
    \/ \E l \in Labels : BothTimeLog(l)
    \/ \E l \in Labels : BothTimeEnd(l)

SpecLockstep == Init /\ [][NextLockstep]_vars

\* =================================================================
\* Properties of the sequential use of the two Timer types (Spec)
\* =================================================================

\* the step is a call (the clock is read, not advanced, by a call) of
\* operation op on label l of the given Timer type; call' describes it
IsCall(variant, ops, l) ==
    /\ now' = now
    /\ call'.variant = variant
    /\ call'.op \in ops
    /\ call'.label = l

Lookups == {"time_log", "time_end"}

\* an interval of ns nanoseconds, as a number of milliseconds
NsAsMs(ns) == ns * (MsScale \div NanosPerMilli)

C2_PeekFrame ==
    [][\A l \in Labels :
        /\ IsCall("plain", {"time_log"}, l) => timers' = timers
        /\ IsCall("shared", {"time_log"}, l) => shared' = shared
      ]_vars

\* a silent time_log has found a running timer, which is still registered
C2_Witness ==
    /\ call.op = "time_log"
    /\ call.variant = "plain"
    /\ call.silent
    /\ call.found
    /\ contains_key(timers, call.label)
    /\ timers[call.label] < now

\* C3: time(L) leaves L registered with the clock reading of the call,
\* replacing any earlier entry; a later time_log(L)/time_end(L) measures
\* from that instant, which is less than the time since the replaced,
\* earlier, instant.
C3_StartOverwrites ==
    [][\A l \in Labels :
        /\ IsCall("plain", {"time"}, l)
              => (contains_key(timers', l) /\ timers'[l] = now)
        /\ (IsCall("plain", Lookups, l) /\ contains_key(timers, l))
              => /\ call'.found
                 /\ call'.ret = F64(NsAsMs(now - timers[l]))
                 /\ (contains_key(overwritten, l) /\ overwritten[l] < timers[l])
                       => call'.ret.v < NsAsMs(now - overwritten[l])
      ]_vars

\* a timer started, started again later, and measured later still
C3_Witness ==
    /\ call.variant = "plain"
    /\ call.op = "time_log"
    /\ call.found
    /\ contains_key(overwritten, call.label)
    /\ contains_key(timers, call.label)
    /\ overwritten[call.label] < timers[call.label]
    /\ timers[call.label] < now
    /\ call.ret = F64(NsAsMs(now - timers[call.label]))

C6_PresentIffRunning ==
    \A l \in Labels : contains_key(timers, l) <=> hist[l] = "time"

\* one timer running, another stopped, after a time_log
C6_Witness ==
    /\ call.variant = "plain"
    /\ call.op = "time_log"
    /\ \E l \in Labels : hist[l] = "time" /\ contains_key(timers, l)
    /\ \E l \in Labels : hist[l] = "time_end" /\ ~contains_key(timers, l)

\* C10: of two time_log calls in succession on a present label, both find
\* it and the second returns at least what the first returned; no
\* returned elapsed value is negative.
C10_PeekMonotonic ==
    [][\A l \in Labels :
        /\ (/\ IsCall("plain", {"time_log"}, l)
            /\ call.variant = "plain" /\ call.op = "time_log"
            /\ call.label = l /\ call.found)
              => (call'.found /\ call'.ret.v >= call.ret.v)
        /\ IsCall("plain", Lookups, l) => call'.ret.v >= 0
      ]_vars

\* the second of two time_log calls returned more than the first
C10_Witness ==
    /\ call.variant = "plain"
    /\ call.op = "time_log"
    /\ call.found
    /\ peeked # None
    /\ call.ret.v > peeked[1]
    /\ peeked[1] > 0

\* =================================================================
\* Properties of Timer::single_instance() (SpecSingleton)
\* =================================================================

\* C7: however the first calls of single_instance() interleave, Timer::new
\* runs at most once, no unwrap() fails, call_once returns only when the
\* Timer is there, and every reference handed out is to that one Timer.
C7_OneInstance ==
    /\ constructed <= 1
    /\ \A t \in Threads :
          /\ pc[t] # "panicked"
          /\ pc[t] \in {"unwrap", "get", "update"}
                => (once = "complete" /\ singleton = 1 /\ constructed = 1)
          /\ gref[t] # 0 => gref[t] = singleton
    /\ \A t, u \in Threads : (gref[t] # 0 /\ gref[u] # 0) => gref[t] = gref[u]

\* two threads entered single_instance() before the Timer existed; one ran
\* the closure, and both now hold a reference
C7_Witness ==
    /\ overlap
    /\ constructed = 1
    /\ \A t \in Threads : gref[t] = 1 /\ pc[t] = "get"
    /\ \A l \in Labels : Cardinality(users[l]) = 1
    /\ timers = Timer_new
    /\ \A l \in Labels : hist[l] \in {"none", "time"}

\* C8: the calls made through Timer::single_instance() by different
\* threads never access the registry at the same time, and once they have
\* all returned the registry is what the calls on each label, in the order
\* they were made, produce.
C8_Original ==
    /\ \A t, u \in Threads :
          (pc[t] = "update" /\ pc[u] = "update") => t = u
    /\ (\A t \in Threads : pc[t] = "idle")
          => \A l \in Labels :
                Cardinality(users[l]) = 1
                   => (contains_key(timers, l) <=> hist[l] = "time")

\* =================================================================
\* Properties of threads sharing the mutex-guarded Timer (SpecShared)
\* =================================================================

\* C9: when threads call time/time_end on labels of their own, then once
\* all calls have returned the registry holds exactly the labels whose
\* last call was a time.
C9_NoLostUpdate ==
    (\A t \in Threads : pc[t] = "idle")
       => \A l \in Labels :
             Cardinality(users[l]) <= 1
                => (contains_key(shared, l) <=> shist[l] = "time")

\* two threads, each with a label of its own, made overlapping calls: one
\* timer is running and the other was stopped after it had been started
C9_Witness ==
    /\ overlap
    /\ \A t \in Threads : pc[t] = "idle"
    /\ \A l \in Labels : Cardinality(users[l]) = 1
    /\ users["a"] # users["b"]
    /\ \E l \in Labels : contains_key(shared, l) /\ shist[l] = "time"
    /\ \E t \in Threads :
          /\ res[t].op = "time_end"
          /\ res[t].found
          /\ ~contains_key(shared, res[t].label)

\* =================================================================
\* Properties of duration_to_ms (SpecConv)
\* =================================================================

\* C11: duration_to_ms is seconds * 1000 + subsecond nanoseconds /
\* 1,000,000: its whole milliseconds and its fraction of a millisecond
\* are those of the duration, and a duration of a whole number n of
\* milliseconds (n = 1234 among them) gives exactly n.
C11_DurationToMs ==
    conv.done =>
       /\ conv.ms.ty = "f64"
       /\ conv.ms.v \div MsScale
             = conv.duration.secs * MillisPerSec
                  + conv.duration.nanos \div NanosPerMilli
       /\ conv.ms.v % MsScale
             = NsAsMs(conv.duration.nanos % NanosPerMilli)
       /\ conv.extra = 0 => conv.ms = F64(conv.n * MsScale)

\* Duration::from_millis(1234) has been converted to 1234.0
C11_Witness ==
    /\ conv.done
    /\ conv.n = TestMillis
    /\ conv.extra = 0
    /\ conv.duration = [secs |-> 1, nanos |-> 234 * NanosPerMilli]
    /\ conv.ms = F64(TestMillis * MsScale)

\* =================================================================
\* Further properties of the sequential use of the Timers (Spec)
\* =================================================================

\* the printed value p (thousandths of a ms) is e rounded to 3 decimals
Rounds3(p, e) ==
    LET u == MsScale \div Decimals3
    IN  2 * (p * u - e) <= u /\ 2 * (e - p * u) <= u

\* C12: silent only suppresses the standard-output line: a silent
\* time_log/time_end returns the value, reports the outcome and leaves the
\* registry as the same call with silent = false would from the same
\* registry and clock reading, and it prints nothing on standard output.
C12_SilentOnlySuppresses ==
    [][\A l \in Labels :
        /\ (IsCall("plain", {"time_log"}, l) /\ call'.silent)
              => LET loud == time_log(timers, l, FALSE, now)
                 IN  /\ call'.ret = loud.ret
                     /\ call'.found = loud.found
                     /\ call'.err = loud.err
                     /\ timers' = loud.timers
                     /\ call'.out = <<>>
                     /\ loud.found => Len(loud.out) = 1
        /\ (IsCall("plain", {"time_end"}, l) /\ call'.silent)
              => LET loud == time_end(timers, l, FALSE, now)
                 IN  /\ call'.ret = loud.ret
                     /\ call'.found = loud.found
                     /\ call'.err = loud.err
                     /\ timers' = loud.timers
                     /\ call'.out = <<>>
                     /\ loud.found => Len(loud.out) = 1
      ]_vars

\* a silent time_end returned a positive elapsed time, printed nothing and
\* removed the label
C12_Witness ==
    /\ call.variant = "plain"
    /\ call.op = "time_end"
    /\ call.silent
    /\ call.found
    /\ call.ret.v > 0
    /\ call.out = <<>>
    /\ call.err = <<>>
    /\ ~contains_key(timers, call.label)

\* C13: a non-silent time_log/time_end emits exactly one line: on a
\* present label one standard-output line "<label>: <elapsed>ms", with the
\* message when one is given, and no error line; on an absent label one
\* line "Timer '<label>' does not exist" on standard error and none on
\* standard output.  time emits nothing.
C13_OneLinePerCall ==
    [][\A l \in Labels : \A v \in {"plain", "shared"} :
        LET reg == IF v = "plain" THEN timers ELSE shared
        IN  /\ (IsCall(v, Lookups, l) /\ ~call'.silent)
                  => /\ Len(call'.out) + Len(call'.err) = 1
                     /\ contains_key(reg, l)
                           => /\ call'.err = <<>>
                              /\ Len(call'.out) = 1
                              /\ call'.out[1].label = l
                              /\ call'.out[1].msg = call'.msg
                              /\ Rounds3(call'.out[1].ms,
                                         NsAsMs(now - reg[l]))
                     /\ ~contains_key(reg, l)
                           => /\ call'.out = <<>>
                              /\ call'.err = <<ErrLine(l)>>
            /\ IsCall(v, {"time"}, l)
                  => (call'.out = <<>> /\ call'.err = <<>>)
      ]_vars

\* a time_log with a message printed one line carrying the message
C13_Witness ==
    /\ call.variant = "shared"
    /\ call.op = "time_log"
    /\ call.msg # None
    /\ call.found
    /\ Len(call.out) = 1
    /\ call.out[1].msg = call.msg
    /\ call.out[1].ms > 0
    /\ call.err = <<>>

\* C17: time(L) and time_end(L) change the entry of L only: every other
\* label is registered after the call exactly if it was before, with the
\* same start instant.
C17_OtherLabelsUntouched ==
    [][\A l \in Labels : \A v \in {"plain", "shared"} :
        LET reg == IF v = "plain" THEN timers ELSE shared
            regAfter == IF v = "plain" THEN timers' ELSE shared'
        IN  IsCall(v, {"time", "time_end"}, l)
               => \A m \in Labels \ {l} :
                     /\ contains_key(regAfter, m) <=> contains_key(reg, m)
                     /\ contains_key(reg, m) => regAfter[m] = reg[m]
      ]_vars

\* a timer was stopped while another, started earlier, keeps running
C17_Witness ==
    /\ call.variant = "plain"
    /\ call.op = "time_end"
    /\ call.found
    /\ ~contains_key(timers, call.label)
    /\ \E m \in Labels \ {call.label} :
          /\ contains_key(timers, m)
          /\ timers[m] < now
          /\ hist[m] = "time"

\* C18: silent does not suppress the not-found diagnostic: a silent
\* time_log/time_end on an absent label prints "Timer '<label>' does not
\* exist" on standard error and returns 0.0.
C18_SilentStillDiagnoses ==
    [][\A l \in Labels :
        (IsCall("plain", Lookups, l) /\ call'.silent
            /\ ~contains_key(timers, l))
           => /\ call'.err = <<ErrLine(l)>>
              /\ call'.ret = F64(0)
              /\ ~call'.found
      ]_vars

\* a silent time_end of a label that is not registered
C18_Witness ==
    /\ call.variant = "plain"
    /\ call.op = "time_end"
    /\ call.silent
    /\ ~call.found
    /\ call.err = <<ErrLine(call.label)>>
    /\ call.ret = F64(0)
    /\ hist[call.label] = "time_end"

\* =================================================================
\* Properties of the two Timers driven by the same calls (SpecLockstep)
\* =================================================================

InCriticalSection(t) == pc[t] \in {"locked", "update", "unlock"}

Completes(t, op, l) ==
    /\ pc[t] = "update"
    /\ pc'[t] = "unlock"
    /\ req[t].op = op
    /\ req[t].label = l

\* C16: of the time_end calls that threads make on one label after a
\* time() on it, exactly one, the first to get the Mutex, finds the timer
\* and prints its elapsed time; every other takes the not-found path; the
\* label is absent after each of them.
C16_OneStopFinds ==
    [][\A t \in Threads : \A l \in Labels :
        Completes(t, "time_end", l)
           => /\ res'[t].found <=> contains_key(shared, l)
              /\ res'[t].found <=> finds[l] = 0 /\ shist[l] # "none"
                                     /\ contains_key(shared, l)
              /\ ~contains_key(shared', l)
              /\ finds'[l] <= 1
              /\ res'[t].found
                    => (Len(res'[t].out) = 1 /\ res'[t].err = <<>>)
              /\ ~res'[t].found
                    => (res'[t].out = <<>> /\ res'[t].err = <<ErrLine(l)>>)
      ]_vars

\* two threads made overlapping time_end calls on the same started label:
\* one found it, the other did not, and the label is gone
C16_Witness ==
    /\ overlap
    /\ \A t \in Threads : pc[t] = "idle" /\ res[t].op = "time_end"
    /\ res["t1"].label = res["t2"].label
    /\ res["t1"].found # res["t2"].found
    /\ finds[res["t1"].label] = 1
    /\ users[res["t1"].label] = Threads
    /\ ~contains_key(shared, res["t1"].label)

====
